---- MODULE Spec2Model ----
(***************************************************************************)
(* State-machine model of lookout.core.annotations (RawData and            *)
(* AnnotatedData).  Python values are modelled as follows: a bytes object  *)
(* is a sequence of byte values, a list or numpy array is a sequence       *)
(* (0-based positions are mapped to the 1-based positions of TLA+ by       *)
(* PyIndex), a dict is a function, and a call's outcome is a record        *)
(* [status, value] whose status is "ok" or the name of the raised          *)
(* exception.  history is the sequence of the mutating calls made on the   *)
(* store so far; converter and heap belong to the BytesToUnicodeConverter  *)
(* part further down and stay empty in the RawData and AnnotatedData       *)
(* specifications; service, grpc and threads belong to the DataService     *)
(* part at the end of the model and stay empty in the others.              *)
(***************************************************************************)
EXTENDS Integers, Sequences, FiniteSets, TLC

VARIABLES raw_data, range_to_annotations, type_to_annotations, ret, calls,
          history, converter, heap, service, grpc, threads

vars == <<raw_data, range_to_annotations, type_to_annotations, ret, calls,
          history, converter, heap, service, grpc, threads>>

\* ------------------------------------------------------------------ bounds

\* Largest number of documents in a batch handed to RawData.
MaxDocs == 3
\* Largest length of one document.
MaxDocLen == 2
\* Largest number of documents of the batch under an AnnotatedData store.
StoreMaxDocs == 2
\* Largest length of one document under an AnnotatedData store.
StoreMaxDocLen == 2
\* Largest number of mutating calls (add, extend) made on one store.
MaxCalls == 2
\* Largest number of annotations passed to one extend call.
MaxBatch == 2
\* Largest number of add calls made on a store that is asked for co-located
\* annotations.
CoLocatedMaxCalls == 3
\* Number of threads that call one DataService.
MaxThreads == 2
\* Number of threads that call one UnicodeDataService.
UnicodeMaxThreads == 1
\* Largest number of get_data and get_bblfsh calls made on one
\* UnicodeDataService.
UnicodeMaxCalls == 3
\* Largest number of calls made on one DataService.
MaxServiceCalls == 4
\* Largest number of chunks in the content of a file the server sends and
\* of a parse request.
ServiceMaxChunks == 1
\* Largest number of chunks in the content of each file of a change the
\* server sends.
ChangeMaxChunks == 1
\* Largest number of documents, and largest length of one, in a batch that
\* is indexed with every kind of key.
IndexMaxDocs == 2
IndexMaxDocLen == 2
\* Largest number of chunks in the content of a converter whose tree has
\* one node.
MaxChunks == 3
\* Largest number of convert_uast calls made on one converter.
MaxConversions == 2
\* Largest number of chunks in the content, and largest number of nodes in
\* the tree, of a converter whose tree has several nodes.
UastMaxChunks == 1
MaxNodes == 2
\* Largest number of chunks in the content of a converter that is asked for
\* positions.
PositionMaxChunks == 4

\* ------------------------------------------------------- Python primitives

Ok(v) == [status |-> "ok", value |-> v]

Raise(e) == [status |-> e, value |-> <<>>]

Min2(a, b) == IF a < b THEN a ELSE b

Max2(a, b) == IF a > b THEN a ELSE b

\* seq[i] of Python for -len <= i < len: a negative index counts from the end.
PyInRange(seq, i) == -Len(seq) <= i /\ i < Len(seq)

PyIndex(seq, i) == IF i < 0 THEN seq[Len(seq) + i + 1] ELSE seq[i + 1]

\* One bound of a Python slice, clamped into 0..len.
PyClamp(n, i) == IF i < 0 THEN Max2(n + i, 0) ELSE Min2(i, n)

\* seq[lo:hi] of Python: never raises, an inverted slice is empty.
PySlice(seq, lo, hi) == SubSeq(seq, PyClamp(Len(seq), lo) + 1, PyClamp(Len(seq), hi))

\* numpy.cumsum of a sequence of integers.
RECURSIVE cumsum(_)
cumsum(s) ==
    IF Len(s) = 0 THEN <<>>
    ELSE LET front == cumsum(SubSeq(s, 1, Len(s) - 1))
         IN Append(front, (IF Len(front) = 0 THEN 0 ELSE front[Len(front)]) + s[Len(s)])

\* numpy.argmax of a boolean array: the 0-based position of the first True,
\* and 0 when no element is True.
argmax(b) ==
    IF \E i \in 1..Len(b) : b[i]
    THEN (CHOOSE i \in 1..Len(b) : b[i] /\ \A j \in 1..(i - 1) : ~b[j]) - 1
    ELSE 0

\* zip(a, b): pairs up to the shorter of the two.
zip(a, b) == [i \in 1..Min2(Len(a), Len(b)) |-> <<a[i], b[i]>>]

\* ------------------------------------------------------------------ RawData

\* RawData.__init__ on a non-empty list of documents.
RawData(document_collection) ==
    LET doc_lens == <<0>> \o [i \in 1..(Len(document_collection) - 1) |->
                                 Len(document_collection[i])]
    IN [_document_collection |-> document_collection,
        _doc_start_offset |-> cumsum(doc_lens)]

\* _offset_to_doc_index with >= written for >: the slip C5 has to tell from
\* the code.
_offset_to_doc_index_ge(self, offset) ==
    LET doc_index == argmax([i \in 1..Len(self._doc_start_offset) |->
                                self._doc_start_offset[i] >= offset]) - 1
    IN <<doc_index, offset - PyIndex(self._doc_start_offset, doc_index)>>

_offset_to_doc_index(self, offset) ==
    LET doc_index == argmax([i \in 1..Len(self._doc_start_offset) |->
                                self._doc_start_offset[i] > offset]) - 1
    IN <<doc_index, offset - PyIndex(self._doc_start_offset, doc_index)>>

\* _get_range without the comparison of the two document indices: the slip
\* C6 has to tell from the code.
_get_range_unchecked(self, start, stop) ==
    LET s == _offset_to_doc_index(self, start)
        e == _offset_to_doc_index(self, stop - 1)
    IN Ok(PySlice(PyIndex(self._document_collection, s[1]), s[2], e[2] + 1))

_get_range(self, start, stop) ==
    LET s == _offset_to_doc_index(self, start)
        e == _offset_to_doc_index(self, stop - 1)
    IN IF s[1] # e[1] THEN Raise("IndexError")
       ELSE Ok(PySlice(PyIndex(self._document_collection, s[1]), s[2], e[2] + 1))

\* RawData.__getitem__: index is [kind |-> "int", v |-> k],
\* [kind |-> "slice", start, stop, step] (step is <<>> for None, <<n>> for n),
\* [kind |-> "tuple", start, stop] or [kind |-> "str"].
\* __getitem__ without the test of lines 64-65: the step of a slice is ignored.
RawData__getitem__any_step(self, index) ==
    IF index.kind = "int"
    THEN LET p == _offset_to_doc_index(self, index.v)
             doc == PyIndex(self._document_collection, p[1])
         IN IF PyInRange(doc, p[2]) THEN Ok(PyIndex(doc, p[2])) ELSE Raise("IndexError")
    ELSE IF index.kind = "slice" \/ index.kind = "tuple"
    THEN _get_range(self, index.start, index.stop)
    ELSE Raise("IndexError")

RawData__getitem__(self, index) ==
    IF index.kind = "int"
    THEN LET p == _offset_to_doc_index(self, index.v)
             doc == PyIndex(self._document_collection, p[1])
         IN IF PyInRange(doc, p[2]) THEN Ok(PyIndex(doc, p[2])) ELSE Raise("IndexError")
    ELSE IF index.kind = "slice"
    THEN IF index.step # <<>> THEN Raise("IndexError")
         ELSE _get_range(self, index.start, index.stop)
    ELSE IF index.kind = "tuple"
    THEN _get_range(self, index.start, index.stop)
    ELSE Raise("IndexError")

get_docs_range(self) ==
    zip(self._doc_start_offset, SubSeq(self._doc_start_offset, 2, Len(self._doc_start_offset)))

\* ------------------------------------------------------------ AnnotatedData

\* An annotation object is [name, range |-> <<start, stop>>, value]; value
\* stands for the payload and the identity of the object.

EmptyDict == [k \in {} |-> 0]

\* d[k] = v of a dict.
DictSet(d, k, v) == [x \in DOMAIN d \cup {k} |-> IF x = k THEN v ELSE d[x]]

\* AnnotatedData.__init__
AnnotatedData(raw) ==
    [_raw_data |-> raw, _range_to_annotations |-> EmptyDict, _type_to_annotations |-> EmptyDict]

AnnotatedData__getitem__(self, item) == RawData__getitem__(self._raw_data, item)

\* add with setdefault in place of the two assignments of lines 109-110: an
\* entry that exists is kept.
add_keep_first(self, annotation) ==
    LET r0 == IF annotation.range \notin DOMAIN self._range_to_annotations
              THEN DictSet(self._range_to_annotations, annotation.range, EmptyDict)
              ELSE self._range_to_annotations
        t0 == IF annotation.name \notin DOMAIN self._type_to_annotations
              THEN DictSet(self._type_to_annotations, annotation.name, EmptyDict)
              ELSE self._type_to_annotations
        keep == annotation.name \in DOMAIN r0[annotation.range]
    IN IF keep THEN self
       ELSE [self EXCEPT
               !._range_to_annotations =
                   DictSet(r0, annotation.range,
                           DictSet(r0[annotation.range], annotation.name, annotation)),
               !._type_to_annotations =
                   DictSet(t0, annotation.name,
                           DictSet(t0[annotation.name], annotation.range, annotation))]

\* add with line 106 made unconditional: the dict of the range is replaced
\* by a new one on every call.
add_reset_range(self, annotation) ==
    LET r0 == DictSet(self._range_to_annotations, annotation.range, EmptyDict)
        t0 == IF annotation.name \notin DOMAIN self._type_to_annotations
              THEN DictSet(self._type_to_annotations, annotation.name, EmptyDict)
              ELSE self._type_to_annotations
    IN [self EXCEPT
          !._range_to_annotations =
              DictSet(r0, annotation.range, DictSet(r0[annotation.range], annotation.name, annotation)),
          !._type_to_annotations =
              DictSet(t0, annotation.name, DictSet(t0[annotation.name], annotation.range, annotation))]

add(self, annotation) ==
    LET r0 == IF annotation.range \notin DOMAIN self._range_to_annotations
              THEN DictSet(self._range_to_annotations, annotation.range, EmptyDict)
              ELSE self._range_to_annotations
        t0 == IF annotation.name \notin DOMAIN self._type_to_annotations
              THEN DictSet(self._type_to_annotations, annotation.name, EmptyDict)
              ELSE self._type_to_annotations
    IN [self EXCEPT
          !._range_to_annotations =
              DictSet(r0, annotation.range, DictSet(r0[annotation.range], annotation.name, annotation)),
          !._type_to_annotations =
              DictSet(t0, annotation.name, DictSet(t0[annotation.name], annotation.range, annotation))]

\* extend: the store after the loop and how the loop ended.  A missing range
\* raises KeyError at line 117 before anything is written; a missing type
\* raises KeyError at line 118, after line 117 has written the range index.
RECURSIVE extend(_, _)
extend(self, annotations) ==
    IF Len(annotations) = 0 THEN [self |-> self, status |-> "ok"]
    ELSE LET annotation == Head(annotations)
         IN IF annotation.range \notin DOMAIN self._range_to_annotations
            THEN [self |-> self, status |-> "KeyError"]
            ELSE LET s1 == [self EXCEPT !._range_to_annotations =
                               DictSet(@, annotation.range,
                                       DictSet(@[annotation.range], annotation.name, annotation))]
                 IN IF annotation.name \notin DOMAIN s1._type_to_annotations
                    THEN [self |-> s1, status |-> "KeyError"]
                    ELSE extend([s1 EXCEPT !._type_to_annotations =
                                    DictSet(@, annotation.name,
                                            DictSet(@[annotation.name], annotation.range, annotation))],
                                Tail(annotations))

\* Order of (start, stop) tuples, as SortedDict keeps its keys.
RangeLess(a, b) == a[1] < b[1] \/ (a[1] = b[1] /\ a[2] < b[2])

\* The keys of a SortedDict in iteration order.
RECURSIVE SortedKeys(_)
SortedKeys(S) ==
    IF S = {} THEN <<>>
    ELSE LET m == CHOOSE x \in S : \A y \in S \ {x} : RangeLess(x, y)
         IN <<m>> \o SortedKeys(S \ {m})

\* The loop of iter_annotation over the keys left, consumed to its end:
\* value is what was yielded, status how the generator ended.
RECURSIVE iter_annotation_loop(_, _, _, _)
iter_annotation_loop(self, d, keys, yielded) ==
    IF Len(keys) = 0 THEN Ok(yielded)
    ELSE LET range == Head(keys)
             got == AnnotatedData__getitem__(self,
                        [kind |-> "tuple", start |-> range[1], stop |-> range[2]])
         IN IF got.status # "ok" THEN [status |-> got.status, value |-> yielded]
            ELSE iter_annotation_loop(self, d, Tail(keys),
                                      Append(yielded, <<got.value, d[range]>>))

\* iter_annotation reading the type index with .get(name, {}): a type that
\* has no entry yields nothing and ends normally.
iter_annotation_get(self, name) ==
    IF name \notin DOMAIN self._type_to_annotations THEN Ok(<<>>)
    ELSE iter_annotation_loop(self, self._type_to_annotations[name],
                              SortedKeys(DOMAIN self._type_to_annotations[name]), <<>>)

iter_annotation(self, name) ==
    IF name \notin DOMAIN self._type_to_annotations THEN Raise("KeyError")
    ELSE iter_annotation_loop(self, self._type_to_annotations[name],
                              SortedKeys(DOMAIN self._type_to_annotations[name]), <<>>)

\* The distinct elements of a sequence in order of first occurrence: the key
\* order of an OrderedDict built from (key, value) pairs.
RECURSIVE Dedup(_)
Dedup(s) ==
    IF Len(s) = 0 THEN <<>>
    ELSE LET front == Dedup(SubSeq(s, 1, Len(s) - 1))
         IN IF \E i \in 1..Len(front) : front[i] = s[Len(s)] THEN front
            ELSE Append(front, s[Len(s)])

\* Annotations(start, stop, pairs): an OrderedDict with a range.
Annotations(range, names, all_annotations) ==
    [range |-> range,
     items |-> [i \in 1..Len(Dedup(names)) |->
                   <<Dedup(names)[i], all_annotations[Dedup(names)[i]]>>]]

\* The loop of iter_annotations over what iter_annotation(names[0]) yields.
RECURSIVE iter_annotations_loop(_, _, _, _, _)
iter_annotations_loop(self, names, items, yielded, inner_status) ==
    IF Len(items) = 0 THEN [status |-> inner_status, value |-> yielded]
    ELSE LET value == Head(items)[1]
             annotation0 == Head(items)[2]
         IN IF annotation0.range \notin DOMAIN self._range_to_annotations
            THEN [status |-> "KeyError", value |-> yielded]
            ELSE LET all_annotations == self._range_to_annotations[annotation0.range]
                 IN iter_annotations_loop(self, names, Tail(items),
                        IF {names[i] : i \in 1..Len(names)} \subseteq DOMAIN all_annotations
                        THEN Append(yielded,
                                    <<value, Annotations(annotation0.range, names, all_annotations)>>)
                        ELSE yielded,
                        inner_status)

iter_annotations(self, names) ==
    IF Len(names) = 0 THEN Raise("IndexError")
    ELSE LET inner == iter_annotation(self, names[1])
         IN iter_annotations_loop(self, names, inner.value, <<>>, inner.status)

\* from_files on a list of File records [path, content, uast, language].
\* RawData is handed a generator, so `assert len(document_collection) > 0`
\* raises TypeError unless the interpreter strips assertions (python -O).
RECURSIVE from_files_loop(_, _)
from_files_loop(annotated_data, pairs) ==
    IF Len(pairs) = 0 THEN annotated_data
    ELSE LET file_range == Head(pairs)[1]
             file == Head(pairs)[2]
             a1 == add(annotated_data, [name |-> "path", range |-> file_range, value |-> file.path])
             a2 == add(a1, [name |-> "uast_node", range |-> file_range, value |-> file.uast])
             a3 == add(a2, [name |-> "language", range |-> file_range, value |-> file.language])
         IN from_files_loop(a3, Tail(pairs))

from_files(files, assertions) ==
    IF assertions THEN Raise("TypeError")
    ELSE LET raw == RawData([i \in 1..Len(files) |-> files[i].content])
             file_ranges == get_docs_range(raw)
         IN Ok(from_files_loop(AnnotatedData(raw), zip(file_ranges, files)))

\* ------------------------------------------------------------------- inputs

\* The batches of documents: every sequence of 1..n documents of length
\* 0..m.  RawData and AnnotatedData never inspect a byte, so byte j of
\* document i carries the value 16 * i + j, which no other position of the
\* batch carries: a byte read from the wrong place is always a wrong value.
Document(i, len) == [j \in 1..len |-> 16 * i + j]

Batches(n, m) ==
    {[i \in 1..Len(lens) |-> Document(i, lens[i])] :
        lens \in UNION {[1..k -> 0..m] : k \in 1..n}}

\* The total length of the batch held by a RawData.
TotalLength(self) ==
    self._doc_start_offset[Len(self._doc_start_offset)]
        + Len(self._document_collection[Len(self._document_collection)])

\* The offsets a caller passes: every offset of the buffer and one on each side.
Offsets(self) == (-1)..(TotalLength(self) + 1)

IntIndexes(self) == {[kind |-> "int", v |-> k] : k \in Offsets(self)}

TupleIndexes(self) ==
    {[kind |-> "tuple", start |-> a, stop |-> b] : a \in Offsets(self), b \in Offsets(self)}

\* Slices with integer bounds, without a step (None) and with one.
SliceIndexes(self) ==
    {[kind |-> "slice", start |-> a, stop |-> b, step |-> step] :
        a \in Offsets(self), b \in Offsets(self), step \in {<<>>, <<1>>, <<2>>}}

\* Keys that are neither int, slice nor tuple.
OtherIndexes == {[kind |-> k] : k \in {"str", "float", "NoneType"}}

\* The File records of a batch: file i has document i as its content.
Files(document_collection) ==
    [i \in 1..Len(document_collection) |->
        [path |-> <<"path", i>>, content |-> document_collection[i],
         uast |-> <<"uast", i>>, language |-> <<"language", i>>]]

\* The annotation types callers add and ask for.
Names == {"token", "path"}

\* The ranges callers annotate: start <= stop within the buffer.
Ranges(self) ==
    {r \in (0..TotalLength(self)) \X (0..TotalLength(self)) : r[1] <= r[2]}

\* The i-th annotation object constructed for call number c: value is the
\* identity of the object, so that two annotations of one type at one range
\* are still two objects.
NewAnnotation(name, range, c, i) == [name |-> name, range |-> range, value |-> <<c, i>>]

\* The batches of 0..MaxBatch annotations passed to call number c.
AnnotationBatches(self, c) ==
    UNION {{[i \in 1..n |-> NewAnnotation(nr[i][1], nr[i][2], c, i)] :
               nr \in [1..n -> Names \X Ranges(self)]} : n \in 0..MaxBatch}

NameLists == UNION {[1..n -> Names] : n \in 1..2}

\* ------------------------------------------------------------ state machine

Self ==
    [_raw_data |-> raw_data,
     _range_to_annotations |-> range_to_annotations,
     _type_to_annotations |-> type_to_annotations]

Constructed(batches) ==
    /\ raw_data \in {RawData(b) : b \in batches}
    /\ range_to_annotations = EmptyDict
    /\ type_to_annotations = EmptyDict
    /\ ret = [op |-> "init", result |-> Ok(<<>>)]
    /\ calls = 0
    /\ history = <<>>
    /\ converter = <<>>
    /\ heap = <<>>
    /\ service = <<>>
    /\ grpc = <<>>
    /\ threads = <<>>

\* raw_data[offset]
GetItemInt ==
    \E index \in IntIndexes(raw_data) :
        /\ ret' = [op |-> "getitem", index |-> index,
                   result |-> RawData__getitem__(raw_data, index)]
        /\ UNCHANGED <<raw_data, range_to_annotations, type_to_annotations, calls>>
        /\ UNCHANGED <<history, converter, heap, service, grpc, threads>>

\* raw_data[(start, stop)]
GetItemTuple ==
    \E index \in TupleIndexes(raw_data) :
        /\ ret' = [op |-> "getitem", index |-> index,
                   result |-> RawData__getitem__(raw_data, index)]
        /\ UNCHANGED <<raw_data, range_to_annotations, type_to_annotations, calls>>
        /\ UNCHANGED <<history, converter, heap, service, grpc, threads>>

\* raw_data.get_docs_range()
GetDocsRange ==
    /\ ret' = [op |-> "get_docs_range", result |-> Ok(get_docs_range(raw_data))]
    /\ UNCHANGED <<raw_data, range_to_annotations, type_to_annotations, calls>>
    /\ UNCHANGED <<history, converter, heap, service, grpc, threads>>

\* AnnotatedData.from_files(files) on the files of the batch, with
\* assertions enabled or stripped.
FromFiles ==
    \E assertions \in BOOLEAN :
        /\ ret' = [op |-> "from_files", assertions |-> assertions,
                   result |-> from_files(Files(raw_data._document_collection), assertions)]
        /\ UNCHANGED <<raw_data, range_to_annotations, type_to_annotations, calls>>
        /\ UNCHANGED <<history, converter, heap, service, grpc, threads>>

\* annotated_data.add(annotation), as one of at most limit mutating calls
AddUpTo(limit) ==
    /\ calls < limit
    /\ \E name \in Names, range \in Ranges(raw_data) :
          LET annotation == NewAnnotation(name, range, calls + 1, 1)
              after == add(Self, annotation)
          IN /\ range_to_annotations' = after._range_to_annotations
             /\ type_to_annotations' = after._type_to_annotations
             /\ ret' = [op |-> "add", annotation |-> annotation, result |-> Ok(<<>>)]
    /\ calls' = calls + 1
    /\ history' = Append(history, "add")
    /\ UNCHANGED <<raw_data, converter, heap, service, grpc, threads>>

Add == AddUpTo(MaxCalls)

\* annotated_data.extend(annotations)
Extend ==
    /\ calls < MaxCalls
    /\ \E annotations \in AnnotationBatches(raw_data, calls + 1) :
          LET after == extend(Self, annotations)
          IN /\ range_to_annotations' = after.self._range_to_annotations
             /\ type_to_annotations' = after.self._type_to_annotations
             /\ ret' = [op |-> "extend", annotations |-> annotations,
                        result |-> [status |-> after.status, value |-> <<>>]]
    /\ calls' = calls + 1
    /\ history' = Append(history, "extend")
    /\ UNCHANGED <<raw_data, converter, heap, service, grpc, threads>>

\* list(annotated_data.iter_annotation(name))
IterAnnotation ==
    \E name \in Names :
        /\ ret' = [op |-> "iter_annotation", name |-> name,
                   result |-> iter_annotation(Self, name)]
        /\ UNCHANGED <<raw_data, range_to_annotations, type_to_annotations, calls>>
        /\ UNCHANGED <<history, converter, heap, service, grpc, threads>>

\* list(annotated_data.iter_annotations(names))
IterAnnotations ==
    \E names \in NameLists :
        /\ ret' = [op |-> "iter_annotations", names |-> names,
                   result |-> iter_annotations(Self, names)]
        /\ UNCHANGED <<raw_data, range_to_annotations, type_to_annotations, calls>>
        /\ UNCHANGED <<history, converter, heap, service, grpc, threads>>

InitRawData == Constructed(Batches(MaxDocs, MaxDocLen))

NextRawData == GetItemInt \/ GetItemTuple \/ GetDocsRange \/ FromFiles

\* A RawData over a batch and the calls made on it.
SpecRawData == InitRawData /\ [][NextRawData]_vars

InitCoLocated == Constructed(Batches(StoreMaxDocs, StoreMaxDocLen))

NextCoLocated == AddUpTo(CoLocatedMaxCalls) \/ IterAnnotations

\* An AnnotatedData filled by add calls only and asked for co-located
\* annotations.
SpecCoLocated == InitCoLocated /\ [][NextCoLocated]_vars

\* raw_data[start:stop] and raw_data[start:stop:step]
GetItemSlice ==
    \E index \in SliceIndexes(raw_data) :
        /\ ret' = [op |-> "getitem", index |-> index,
                   result |-> RawData__getitem__(raw_data, index)]
        /\ UNCHANGED <<raw_data, range_to_annotations, type_to_annotations, calls>>
        /\ UNCHANGED <<history, converter, heap, service, grpc, threads>>

\* raw_data[key] for a key of another type
GetItemOther ==
    \E index \in OtherIndexes :
        /\ ret' = [op |-> "getitem", index |-> index,
                   result |-> RawData__getitem__(raw_data, index)]
        /\ UNCHANGED <<raw_data, range_to_annotations, type_to_annotations, calls>>
        /\ UNCHANGED <<history, converter, heap, service, grpc, threads>>

InitIndexing == Constructed(Batches(IndexMaxDocs, IndexMaxDocLen))

NextIndexing == GetItemInt \/ GetItemTuple \/ GetItemSlice \/ GetItemOther

\* A RawData over a batch, indexed with keys of every kind.
SpecIndexing == InitIndexing /\ [][NextIndexing]_vars

InitAnnotatedData == Constructed(Batches(StoreMaxDocs, StoreMaxDocLen))

NextAnnotatedData == Add \/ Extend \/ IterAnnotation \/ IterAnnotations

\* An AnnotatedData over a batch and the calls made on it.
SpecAnnotatedData == InitAnnotatedData /\ [][NextAnnotatedData]_vars

\* ------------------------------------------------- BytesToUnicodeConverter
\* A bytes object is a sequence of byte values 0..255 and a str a sequence of
\* codepoints.

\* The codepoint of the replacement character "�".
REPLACEMENT == 65533

IsContinuation(b) == 128 <= b /\ b <= 191

\* One step of bytes.decode(errors="replace") at 1-based position p: the
\* codepoint produced, the number n of bytes consumed and whether they were
\* an error.  As CPython's UTF-8 decoder does, an invalid start byte is an
\* error of one byte, an invalid continuation byte ends an error made of the
\* bytes before it, and a sequence cut by the end of the data is one error
\* up to the end.
utf8_decode_step(content, p) ==
    LET ch == content[p]
        avail == Len(content) - p + 1
        ch2 == content[p + 1]
        ch3 == content[p + 2]
        ch4 == content[p + 3]
        error(n) == [char |-> REPLACEMENT, n |-> n, error |-> TRUE]
        char(c, n) == [char |-> c, n |-> n, error |-> FALSE]
    IN IF ch < 128 THEN char(ch, 1)
       ELSE IF ch < 194 THEN error(1)
       ELSE IF ch < 224
       THEN IF avail < 2 THEN error(1)
            ELSE IF ~IsContinuation(ch2) THEN error(1)
            ELSE char((ch - 192) * 64 + (ch2 - 128), 2)
       ELSE IF ch < 240
       THEN LET ok2 == IsContinuation(ch2) /\ ~(IF ch2 < 160 THEN ch = 224 ELSE ch = 237)
            IN IF avail < 2 THEN error(1)
               ELSE IF ~ok2 THEN error(1)
               ELSE IF avail < 3 THEN error(2)
               ELSE IF ~IsContinuation(ch3) THEN error(2)
               ELSE char((ch - 224) * 4096 + (ch2 - 128) * 64 + (ch3 - 128), 3)
       ELSE IF ch < 245
       THEN LET ok2 == IsContinuation(ch2) /\ ~(IF ch2 < 144 THEN ch = 240 ELSE ch = 244)
            IN IF avail < 2 THEN error(1)
               ELSE IF ~ok2 THEN error(1)
               ELSE IF avail < 3 THEN error(2)
               ELSE IF ~IsContinuation(ch3) THEN error(2)
               ELSE IF avail < 4 THEN error(3)
               ELSE IF ~IsContinuation(ch4) THEN error(3)
               ELSE char((ch - 240) * 262144 + (ch2 - 128) * 4096
                            + (ch3 - 128) * 64 + (ch4 - 128), 4)
       ELSE error(1)

\* The steps of decoding content from position p to its end.
RECURSIVE utf8_decode_steps(_, _)
utf8_decode_steps(content, p) ==
    IF p > Len(content) THEN <<>>
    ELSE LET step == utf8_decode_step(content, p)
         IN <<step>> \o utf8_decode_steps(content, p + step.n)

\* content.decode(errors="replace")
decode(content) ==
    LET steps == utf8_decode_steps(content, 1)
    IN [i \in 1..Len(steps) |-> steps[i].char]

\* len(char.encode()) for one codepoint.
encoded_len(char) ==
    IF char < 128 THEN 1 ELSE IF char < 2048 THEN 2 ELSE IF char < 65536 THEN 3 ELSE 4

\* The codepoints str.splitlines takes as line boundaries; "\r\n" is one.
LineBoundaries == {10, 11, 12, 13, 28, 29, 30, 133, 8232, 8233}

\* The length of the first line of a non-empty text, its boundary included.
first_line_len(text) ==
    IF \E i \in 1..Len(text) : text[i] \in LineBoundaries
    THEN LET i == CHOOSE i \in 1..Len(text) :
                     text[i] \in LineBoundaries /\ \A j \in 1..(i - 1) : text[j] \notin LineBoundaries
         IN IF text[i] = 13 /\ i < Len(text) /\ text[i + 1] = 10 THEN i + 1 ELSE i
    ELSE Len(text)

\* text.splitlines(keepends)
RECURSIVE splitlines(_, _)
splitlines(text, keepends) ==
    IF Len(text) = 0 THEN <<>>
    ELSE LET n == first_line_len(text)
             line == SubSeq(text, 1, n)
             bare == IF line[n] \notin LineBoundaries THEN line
                     ELSE IF n >= 2 /\ line[n - 1] = 13 /\ line[n] = 10 THEN SubSeq(line, 1, n - 2)
                     ELSE SubSeq(line, 1, n - 1)
         IN <<IF keepends THEN line ELSE bare>> \o splitlines(SubSeq(text, n + 1, Len(text)), keepends)

\* _build_lines_offset_mapping: the offsets at which the lines start and, as
\* the last element, the length of the text plus one; an empty array for an
\* empty text.
RECURSIVE line_start_offsets(_, _)
line_start_offsets(lines, offsets) ==
    IF Len(lines) = 0 THEN offsets
    ELSE line_start_offsets(Tail(lines), Append(offsets, offsets[Len(offsets)] + Len(Head(lines))))

\* _build_lines_offset_mapping without line 68: the last element is the
\* length of the text.
_build_lines_offset_mapping_no_sentinel(content) ==
    IF Len(content) = 0 THEN <<>>
    ELSE line_start_offsets(splitlines(content, TRUE), <<0>>)

_build_lines_offset_mapping(content) ==
    IF Len(content) = 0 THEN <<>>
    ELSE LET line_start_offsets_ == line_start_offsets(splitlines(content, TRUE), <<0>>)
         IN [line_start_offsets_ EXCEPT ![Len(line_start_offsets_)] = @ + 1]

\* The loop of _build_bytes_to_str_offset_mapping from character i (0-based)
\* on: a replacement character counts as one byte, any other character as
\* the bytes of its encoding.
RECURSIVE bytes_to_str_offset_loop(_, _, _, _)
bytes_to_str_offset_loop(content_str, i, byte_len_before, byte_to_str_offset) ==
    IF i >= Len(content_str) THEN byte_to_str_offset
    ELSE LET char == content_str[i + 1]
             len == byte_len_before
                      + (IF char # REPLACEMENT THEN encoded_len(char) ELSE 1)
         IN bytes_to_str_offset_loop(content_str, i + 1, len,
                                     DictSet(byte_to_str_offset, len, i + 1))

\* The mapping built with two bytes counted for every character, as if the
\* text were encoded in UTF-16.
_build_bytes_to_str_offset_mapping_utf16(content) ==
    LET content_str == decode(content)
    IN DictSet([k \in {2 * i : i \in 0..Len(content_str)} |-> k \div 2],
               Len(content), Len(content_str))

_build_bytes_to_str_offset_mapping(content) ==
    LET content_str == decode(content)
    IN DictSet(bytes_to_str_offset_loop(content_str, 0, 0, DictSet(EmptyDict, 0, 0)),
               Len(content), Len(content_str))

\* BytesToUnicodeConverter.__init__
BytesToUnicodeConverter(content) ==
    [_content |-> content,
     _content_str |-> decode(content),
     _lines |-> splitlines(decode(content), TRUE),
     _byte_to_str_offset |-> _build_bytes_to_str_offset_mapping(content),
     _lines_offset |-> _build_lines_offset_mapping(decode(content))]

convert_content(self) == self._content_str

\* bblfsh.Position(offset, line, col)
Position(offset, line, col) == [offset |-> offset, line |-> line, col |-> col]

\* _get_position: the line is found with numpy.argmax over the line starts
\* (0 when none exceeds the offset, so that line_num is -1 and indexes the
\* last element).
\* _get_position without lines 54-57: the end of a line is never moved to
\* the next line.
_get_position_same_line(self, offset) ==
    LET line_num == argmax([i \in 1..Len(self._lines_offset) |->
                               self._lines_offset[i] > offset]) - 1
        col == offset - PyIndex(self._lines_offset, line_num)
    IN Position(offset, line_num + 1, col + 1)

_get_position(self, offset) ==
    LET line_num == argmax([i \in 1..Len(self._lines_offset) |->
                               self._lines_offset[i] > offset]) - 1
        col == offset - PyIndex(self._lines_offset, line_num)
        line == PyIndex(self._lines, line_num)
    IN IF Len(line) = col /\ splitlines(line, FALSE)[1] # line
       THEN Position(offset, line_num + 1 + 1, 0 + 1)
       ELSE Position(offset, line_num + 1, col + 1)

\* A call of _get_position: numpy.argmax raises ValueError on the empty
\* array that _build_lines_offset_mapping returns for an empty text.
_get_position_call(self, offset) ==
    IF Len(self._lines_offset) = 0 THEN Raise("ValueError")
    ELSE Ok(_get_position(self, offset))

\* A UAST lives in heap, a function from node identities 1..n to
\* bblfsh.Node values [start_position, end_position, children], children
\* being the sequence of the identities of the child nodes.
Node(start_position, end_position, children) ==
    [start_position |-> start_position, end_position |-> end_position,
     children |-> children]

\* _traverse_uast: the nodes in the order they are yielded.
RECURSIVE _traverse_uast_loop(_, _, _)
_traverse_uast_loop(nodes, stack, yielded) ==
    IF Len(stack) = 0 THEN yielded
    ELSE LET node == Head(stack)
         IN _traverse_uast_loop(nodes, Tail(stack) \o nodes[node].children,
                                Append(yielded, node))

_traverse_uast(nodes, uast) == _traverse_uast_loop(nodes, <<uast>>, <<>>)

\* convert_uast without line 37: the positions of the tree passed in are
\* rewritten in place and that tree is returned.
FromStringSerializeToString_alias(nodes, uast) == [nodes |-> nodes, uast |-> uast]

\* bblfsh.Node.FromString(uast.SerializeToString()): new nodes with the
\* values of the tree under uast are allocated after the existing ones.
FromStringSerializeToString(nodes, uast) ==
    LET old == _traverse_uast(nodes, uast)
        new(id) == Len(nodes) + (CHOOSE i \in 1..Len(old) : old[i] = id)
        copy(id) == [nodes[id] EXCEPT !.children = [k \in 1..Len(@) |-> new(@[k])]]
    IN [nodes |-> nodes \o [i \in 1..Len(old) |-> copy(old[i])],
        uast |-> new(uast)]

\* Lines 41-46 for one position: the position itself when it is all zero,
\* else the new position, or KeyError when the offset is no key of the table.
convert_position(self, position) ==
    IF position.offset = 0 /\ position.col = 0 /\ position.line = 0 THEN Ok(position)
    ELSE IF position.offset \notin DOMAIN self._byte_to_str_offset THEN Raise("KeyError")
    ELSE _get_position_call(self, self._byte_to_str_offset[position.offset])

\* The loop of lines 40-46 over the nodes that are left.
RECURSIVE convert_uast_loop(_, _, _)
convert_uast_loop(self, nodes, left) ==
    IF Len(left) = 0 THEN [nodes |-> nodes, status |-> "ok"]
    ELSE LET node == Head(left)
             start == convert_position(self, nodes[node].start_position)
             after_start == IF start.status = "ok"
                            THEN [nodes EXCEPT ![node].start_position = start.value]
                            ELSE nodes
             end == convert_position(self, nodes[node].end_position)
         IN IF start.status # "ok" THEN [nodes |-> nodes, status |-> start.status]
            ELSE IF end.status # "ok" THEN [nodes |-> after_start, status |-> end.status]
            ELSE convert_uast_loop(self,
                                   [after_start EXCEPT ![node].end_position = end.value],
                                   Tail(left))

\* convert_uast: the heap after the call and its outcome, the identity of
\* the returned tree when it returns.
\* convert_uast without lines 38-39: the loop runs for an empty content too.
convert_uast_always_loop(self, nodes, uast) ==
    LET copied == FromStringSerializeToString(nodes, uast)
        done == convert_uast_loop(self, copied.nodes,
                                  _traverse_uast(copied.nodes, copied.uast))
    IN [nodes |-> done.nodes,
        result |-> IF done.status = "ok" THEN Ok(copied.uast) ELSE Raise(done.status)]

convert_uast(self, nodes, uast) ==
    LET copied == FromStringSerializeToString(nodes, uast)
    IN IF Len(self._content) = 0
       THEN [nodes |-> copied.nodes, result |-> Ok(copied.uast)]
       ELSE LET done == convert_uast_loop(self, copied.nodes,
                                          _traverse_uast(copied.nodes, copied.uast))
            IN [nodes |-> done.nodes,
                result |-> IF done.status = "ok" THEN Ok(copied.uast)
                           ELSE Raise(done.status)]

\* ------------------------------------------------------ converter inputs

\* The pieces contents are made of: "a", "\n", "ÿ" (two bytes), "�" itself
\* (three bytes), the first two bytes of a three-byte character, and a lone
\* continuation byte.
Chunks == {<<97>>, <<10>>, <<195, 191>>, <<239, 191, 189>>, <<239, 191>>, <<191>>}

RECURSIVE Join(_)
Join(chunks) == IF Len(chunks) = 0 THEN <<>> ELSE Head(chunks) \o Join(Tail(chunks))

\* The contents of at most n chunks.
Contents(n) == {Join(chunks) : chunks \in UNION {[1..k -> Chunks] : k \in 0..n}}

\* The positions a node of a tree over content carries: at offset 0 every
\* mix of zero and set line and col (all three zero is an unset position),
\* and every other byte offset up to the length of the content (offset 1
\* for an empty content, so that its trees carry a set offset too).
Positions(content) ==
    {Position(0, line, col) : line \in {0, 1}, col \in {0, 1}}
        \cup {Position(offset, 1, offset + 1) : offset \in 1..Max2(Len(content), 1)}

\* The one-node trees over content.
SingleNodes(content) ==
    {<<Node(start, end, <<>>)>> : start \in Positions(content), end \in Positions(content)}

\* The parents of the nodes 2..n of a tree whose nodes are numbered so that
\* a parent comes before its children.
Shapes(n) == {parent \in [2..n -> 1..n] : \A i \in 2..n : parent[i] < i}

ChildrenOf(parent, n, id) ==
    LET RECURSIVE from(_)
        from(i) == IF i > n THEN <<>>
                   ELSE (IF parent[i] = id THEN <<i>> ELSE <<>>) \o from(i + 1)
    IN from(2)

\* The trees of at most n nodes over content in which a node has no start
\* position and any end position.
Uasts(content, n) ==
    UNION {{[id \in 1..k |-> Node(Position(0, 0, 0), end[id], ChildrenOf(parent, k, id))] :
              parent \in Shapes(k), end \in [1..k -> Positions(content)]} : k \in 1..n}

\* ------------------------------------------------ converter state machine

\* A converter over content and a tree of the caller in the heap; the
\* variables of the annotation store are not used.
ConverterConstructed(content, uasts) ==
    /\ converter = BytesToUnicodeConverter(content)
    /\ heap \in uasts
    /\ ret = [op |-> "init", result |-> Ok(<<>>)]
    /\ calls = 0
    /\ history = <<>>
    /\ raw_data = <<>>
    /\ range_to_annotations = <<>>
    /\ type_to_annotations = <<>>
    /\ service = <<>>
    /\ grpc = <<>>
    /\ threads = <<>>

\* The trees the caller holds: its own (node 1) and the one the last call
\* returned.
CallerUasts ==
    {1} \cup (IF ret.op = "convert_uast" /\ ret.result.status = "ok"
              THEN {ret.result.value} ELSE {})

\* converter.convert_uast(uast)
ConvertUast ==
    /\ calls < MaxConversions
    /\ \E uast \in CallerUasts :
          LET after == convert_uast(converter, heap, uast)
          IN /\ heap' = after.nodes
             /\ ret' = [op |-> "convert_uast", uast |-> uast, result |-> after.result]
    /\ calls' = calls + 1
    /\ UNCHANGED <<converter, history, raw_data, range_to_annotations, type_to_annotations>>
    /\ UNCHANGED <<service, grpc, threads>>

InitConverter ==
    \E content \in Contents(MaxChunks) :
        ConverterConstructed(content, SingleNodes(content))

NextConverter == ConvertUast

\* A converter over any content and the conversions of a one-node tree.
SpecConverter == InitConverter /\ [][NextConverter]_vars

InitUast ==
    \E content \in Contents(UastMaxChunks) :
        ConverterConstructed(content, Uasts(content, MaxNodes))

NextUast == ConvertUast

\* A converter over a short content and the conversions of a tree of
\* several nodes.
SpecUast == InitUast /\ [][NextUast]_vars

\* The pieces the contents of position lookups are made of: "a", the line
\* boundaries "\n" and "\r" (so that "\r\n" occurs), "ÿ" (two bytes) and
\* the line separator U+2028 (three bytes).
PositionChunks == {<<97>>, <<10>>, <<13>>, <<195, 191>>, <<226, 128, 168>>}

PositionContents(n) ==
    {Join(chunks) : chunks \in UNION {[1..k -> PositionChunks] : k \in 0..n}}

\* converter._get_position(offset) for a codepoint offset of the text, and
\* one past it.
GetPosition ==
    \E offset \in 0..(Len(converter._content_str) + 1) :
        /\ ret' = [op |-> "_get_position", offset |-> offset,
                   result |-> _get_position_call(converter, offset)]
        /\ UNCHANGED <<converter, heap, calls, history>>
        /\ UNCHANGED <<raw_data, range_to_annotations, type_to_annotations>>
        /\ UNCHANGED <<service, grpc, threads>>

InitPosition ==
    \E content \in PositionContents(PositionMaxChunks) :
        ConverterConstructed(content, {<<>>})

NextPosition == GetPosition

\* A converter over a content of several lines and its position lookups.
SpecPosition == InitPosition /\ [][NextPosition]_vars

\* ------------------------------------------------------------ DataService
\* service holds the fields of one DataService: _data_request_local, the
\* threading.local as a function from thread to the attributes that thread
\* sees (None for an attribute that is not set), and
\* _data_request_channels, the list of channels.  grpc holds the objects of
\* the gRPC layer by identity: channels[c] is "open" or "closed", stubs[s]
\* is a stub, [channel, GetChanges, GetFiles, Parse], a method being the
\* sequence of the wrappers put around the gRPC method, innermost first.
\* threads[t] is the frame of the call thread t is in: pc names the
\* statement it executes next ("idle" between calls), op the public method
\* it called, attr the stub attribute the call fills, channel, stub and i
\* its local variables.

None == 0

\* The threads that call the service.
Threads == DOMAIN threads

NoAttributes == [channel |-> None, data_stub |-> None, bblfsh_stub |-> None]

\* threading.local(): no thread sees any attribute.
threading_local(among) == [t \in among |-> NoAttributes]

\* DataService.__init__, for a service that the threads among will call.
DataService(among) ==
    [_data_request_local |-> threading_local(among), _data_request_channels |-> <<>>]

IdleFrame == [pc |-> "idle", op |-> "", attr |-> "", channel |-> None, stub |-> None, i |-> 0]

\* DataStub(channel) and ProtocolServiceStub(channel): the gRPC methods,
\* not wrapped.
Stub(channel) == [channel |-> channel, GetChanges |-> <<>>, GetFiles |-> <<>>, Parse |-> <<>>]

\* list.remove(x): the list without the first x.
RECURSIVE list_remove(_, _)
list_remove(list, x) ==
    IF Head(list) = x THEN Tail(list) ELSE <<Head(list)>> \o list_remove(Tail(list), x)

InList(list, x) == \E k \in 1..Len(list) : list[k] = x

\* A call that ends: the frame is dropped and the outcome recorded.
Return(t, result) ==
    /\ threads' = [threads EXCEPT ![t] = IdleFrame]
    /\ ret' = [op |-> threads[t].op, thread |-> t, result |-> result]

\* A call of op by thread t that ends in its first statement.
ReturnAtOnce(t, op, result) ==
    /\ ret' = [op |-> op, thread |-> t, result |-> result]
    /\ UNCHANGED threads

\* The variables a DataService call leaves alone.
ServiceFrame ==
    UNCHANGED <<raw_data, range_to_annotations, type_to_annotations, history, converter>>

\* stub = getattr(self._data_request_local, attr, None) of get_data and
\* get_bblfsh: when the thread has the stub, DataService returns it and
\* UnicodeDataService goes on to wrap it; else _get_channel is entered.
get_stub(t, op, attr, wraps, limit) ==
    /\ threads[t].pc = "idle"
    /\ calls < limit
    /\ calls' = calls + 1
    /\ LET stub == service._data_request_local[t][attr]
           frame == [IdleFrame EXCEPT !.op = op, !.attr = attr]
       IN IF stub = None
          THEN /\ threads' = [threads EXCEPT ![t] = [frame EXCEPT !.pc = "_get_channel"]]
               /\ UNCHANGED ret
          ELSE IF wraps
          THEN /\ threads' = [threads EXCEPT ![t] = [frame EXCEPT !.pc = "wrap", !.stub = stub]]
               /\ UNCHANGED ret
          ELSE ReturnAtOnce(t, op, Ok(stub))
    /\ UNCHANGED <<service, grpc, heap>>
    /\ ServiceFrame

\* data_service.get_data(), first statement
GetData == \E t \in Threads : get_stub(t, "DataService.get_data", "data_stub", FALSE, MaxServiceCalls)

\* data_service.get_bblfsh(), first statement
GetBblfsh == \E t \in Threads : get_stub(t, "DataService.get_bblfsh", "bblfsh_stub", FALSE, MaxServiceCalls)

\* _get_channel, line 84: the channel of the thread is read.
GetChannel ==
    \E t \in Threads :
        /\ threads[t].pc = "_get_channel"
        /\ LET channel == service._data_request_local[t].channel
           IN threads' = [threads EXCEPT ![t] =
                            IF channel = None THEN [@ EXCEPT !.pc = "create_channel"]
                            ELSE [@ EXCEPT !.pc = "stub", !.channel = channel]]
        /\ UNCHANGED <<service, grpc, ret, calls, heap>>
        /\ ServiceFrame

\* _get_channel, line 86: a channel is opened and kept as the thread's.
CreateChannel ==
    \E t \in Threads :
        /\ threads[t].pc = "create_channel"
        /\ LET channel == Len(grpc.channels) + 1
           IN /\ grpc' = [grpc EXCEPT !.channels = Append(@, "open")]
              /\ service' = [service EXCEPT !._data_request_local[t].channel = channel]
              /\ threads' = [threads EXCEPT ![t] = [@ EXCEPT !.pc = "append", !.channel = channel]]
        /\ UNCHANGED <<ret, calls, heap>>
        /\ ServiceFrame

\* _get_channel, line 87: the channel is appended to the list.
AppendChannel ==
    \E t \in Threads :
        /\ threads[t].pc = "append"
        /\ service' = [service EXCEPT !._data_request_channels = Append(@, threads[t].channel)]
        /\ threads' = [threads EXCEPT ![t] = [@ EXCEPT !.pc = "stub"]]
        /\ UNCHANGED <<grpc, ret, calls, heap>>
        /\ ServiceFrame

\* Lines 47 and 56-57: the stub is made over the channel and kept as the
\* thread's; DataService returns it, UnicodeDataService goes on to wrap it.
MakeStub ==
    \E t \in Threads :
        /\ threads[t].pc = "stub"
        /\ LET stub == Len(grpc.stubs) + 1
           IN /\ grpc' = [grpc EXCEPT !.stubs = Append(@, Stub(threads[t].channel))]
              /\ service' = [service EXCEPT !._data_request_local[t][threads[t].attr] = stub]
              /\ IF threads[t].op \in {"UnicodeDataService.get_data",
                                       "UnicodeDataService.get_bblfsh"}
                 THEN /\ threads' = [threads EXCEPT ![t] = [@ EXCEPT !.pc = "wrap", !.stub = stub]]
                      /\ UNCHANGED ret
                 ELSE Return(t, Ok(stub))
        /\ UNCHANGED <<calls, heap>>
        /\ ServiceFrame

\* data_service.close_channel(), line 74: the channel of the thread is
\* read; the call ends when there is none.
CloseChannel ==
    \E t \in Threads :
        /\ threads[t].pc = "idle"
        /\ calls < MaxServiceCalls
        /\ calls' = calls + 1
        /\ LET channel == service._data_request_local[t].channel
           IN IF channel = None
              THEN ReturnAtOnce(t, "DataService.close_channel", Ok(None))
              ELSE /\ threads' = [threads EXCEPT ![t] =
                                    [IdleFrame EXCEPT !.pc = "remove",
                                                      !.op = "DataService.close_channel",
                                                      !.channel = channel]]
                   /\ UNCHANGED ret
        /\ UNCHANGED <<service, grpc, heap>>
        /\ ServiceFrame

\* close_channel, line 76: list.remove raises ValueError for a channel
\* that is not in the list.
RemoveChannel ==
    \E t \in Threads :
        /\ threads[t].pc = "remove"
        /\ IF InList(service._data_request_channels, threads[t].channel)
           THEN /\ service' = [service EXCEPT !._data_request_channels =
                                                 list_remove(@, threads[t].channel)]
                /\ threads' = [threads EXCEPT ![t] = [@ EXCEPT !.pc = "forget"]]
                /\ UNCHANGED ret
           ELSE /\ Return(t, Raise("ValueError"))
                /\ UNCHANGED service
        /\ UNCHANGED <<grpc, calls, heap>>
        /\ ServiceFrame

\* close_channel, lines 77-79: the thread forgets its channel and stubs.
ForgetChannel ==
    \E t \in Threads :
        /\ threads[t].pc = "forget"
        /\ service' = [service EXCEPT !._data_request_local[t] = NoAttributes]
        /\ threads' = [threads EXCEPT ![t] = [@ EXCEPT !.pc = "close"]]
        /\ UNCHANGED <<grpc, ret, calls, heap>>
        /\ ServiceFrame

\* close_channel, lines 80-81: the channel is closed and the call ends.
CloseCurrent ==
    \E t \in Threads :
        /\ threads[t].pc = "close"
        /\ grpc' = [grpc EXCEPT !.channels[threads[t].channel] = "closed"]
        /\ Return(t, Ok(None))
        /\ UNCHANGED <<service, calls, heap>>
        /\ ServiceFrame

\* data_service.shutdown(), lines 64-65: the iteration over the list
\* starts.
Shutdown ==
    \E t \in Threads :
        /\ threads[t].pc = "idle"
        /\ calls < MaxServiceCalls
        /\ calls' = calls + 1
        /\ threads' = [threads EXCEPT ![t] =
                         [IdleFrame EXCEPT !.pc = "for", !.op = "DataService.shutdown"]]
        /\ UNCHANGED <<service, grpc, ret, heap>>
        /\ ServiceFrame

\* shutdown, lines 65-66: the list iterator gives the element at its
\* index while the index is below the present length of the list, and that
\* channel is closed; else the loop is left.
ShutdownLoop ==
    \E t \in Threads :
        /\ threads[t].pc = "for"
        /\ IF threads[t].i < Len(service._data_request_channels)
           THEN /\ grpc' = [grpc EXCEPT
                              !.channels[service._data_request_channels[threads[t].i + 1]] =
                                  "closed"]
                /\ threads' = [threads EXCEPT ![t] = [@ EXCEPT !.i = @ + 1]]
           ELSE /\ threads' = [threads EXCEPT ![t] = [@ EXCEPT !.pc = "clear"]]
                /\ UNCHANGED grpc
        /\ UNCHANGED <<service, ret, calls, heap>>
        /\ ServiceFrame

\* shutdown, line 67: the list is emptied.
ShutdownClear ==
    \E t \in Threads :
        /\ threads[t].pc = "clear"
        /\ service' = [service EXCEPT !._data_request_channels = <<>>]
        /\ threads' = [threads EXCEPT ![t] = [@ EXCEPT !.pc = "local"]]
        /\ UNCHANGED <<grpc, ret, calls, heap>>
        /\ ServiceFrame

\* shutdown, line 68: a new threading.local replaces the old one, and the
\* call ends.
ShutdownLocal ==
    \E t \in Threads :
        /\ threads[t].pc = "local"
        /\ service' = [service EXCEPT !._data_request_local = threading_local(Threads)]
        /\ Return(t, Ok(None))
        /\ UNCHANGED <<grpc, calls, heap>>
        /\ ServiceFrame

\* A service that n threads call, no call made yet.
ServiceConstructed(n) ==
    /\ service = DataService(1..n)
    /\ grpc = [channels |-> <<>>, stubs |-> <<>>]
    /\ threads = [t \in 1..n |-> IdleFrame]
    /\ ret = [op |-> "init", result |-> Ok(<<>>)]
    /\ calls = 0
    /\ history = <<>>
    /\ converter = <<>>
    /\ heap = <<>>
    /\ raw_data = <<>>
    /\ range_to_annotations = <<>>
    /\ type_to_annotations = <<>>

InitDataService == ServiceConstructed(MaxThreads)

NextDataService ==
    \/ GetData
    \/ GetBblfsh
    \/ GetChannel
    \/ CreateChannel
    \/ AppendChannel
    \/ MakeStub
    \/ CloseChannel
    \/ RemoveChannel
    \/ ForgetChannel
    \/ CloseCurrent
    \/ Shutdown
    \/ ShutdownLoop
    \/ ShutdownClear
    \/ ShutdownLocal

\* One DataService whose methods are called by several threads, a thread
\* running one statement at a time.
SpecDataService == InitDataService /\ [][NextDataService]_vars

\* ----------------------------------------------------- UnicodeDataService
\* A content is tagged with its Python type, bytes or str, as
\* [type, value]; value is the sequence of the bytes or of the codepoints.

bytes(value) == [type |-> "bytes", value |-> value]

str(value) == [type |-> "str", value |-> value]

\* str.encode(): the UTF-8 bytes of one codepoint, then of a text.
encode_char(char) ==
    IF char < 128 THEN <<char>>
    ELSE IF char < 2048 THEN <<192 + (char \div 64), 128 + (char % 64)>>
    ELSE IF char < 65536
    THEN <<224 + (char \div 4096), 128 + ((char \div 64) % 64), 128 + (char % 64)>>
    ELSE <<240 + (char \div 262144), 128 + ((char \div 4096) % 64),
           128 + ((char \div 64) % 64), 128 + (char % 64)>>

RECURSIVE encode(_)
encode(text) == IF Len(text) = 0 THEN <<>> ELSE encode_char(Head(text)) \o encode(Tail(text))

\* File and UnicodeFile: content, the identity of the UAST in the heap, path
\* and language.
File(content, uast) ==
    [content |-> content, uast |-> uast, path |-> "f.py", language |-> "Python"]

\* UnicodeFile(content=..., uast=..., path=..., language=...) of lines
\* 110-115, converted being the outcome of convert_uast.
UnicodeFile(self, file, converted) ==
    [nodes |-> converted.nodes,
     result |-> IF converted.result.status # "ok" THEN converted.result
                ELSE Ok([content |-> str(convert_content(self)),
                         uast |-> converted.result.value,
                         path |-> file.path,
                         language |-> file.language])]

\* convert_file with the converter of line 109.
convert_file_with(self, nodes, file) ==
    UnicodeFile(self, file, convert_uast(self, nodes, file.uast))

\* convert_file: content.decode of line 20 raises AttributeError for a
\* content that is a str.
convert_file(nodes, file) ==
    IF file.content.type # "bytes" THEN [nodes |-> nodes, result |-> Raise("AttributeError")]
    ELSE convert_file_with(BytesToUnicodeConverter(file.content.value), nodes, file)

\* Change(base=..., head=...) of lines 125-128, base and head being the
\* outcomes of convert_file.
Change(base, head) ==
    [nodes |-> head.nodes,
     result |-> IF head.result.status # "ok" THEN head.result
                ELSE Ok([base |-> base.result.value, head |-> head.result.value])]

\* convert_change after its base was converted.
convert_change_head(change, base) ==
    IF base.result.status # "ok" THEN base
    ELSE Change(base, convert_file(base.nodes, change.head))

\* convert_change: base, then head.
convert_change(nodes, change) ==
    convert_change_head(change, convert_file(nodes, change.base))

\* map(convert_file, files) and map(convert_change, changes), read to the
\* end: the list of the converted items, or the first exception.
RECURSIVE map_convert(_, _, _, _)
RECURSIVE map_convert_next(_, _, _, _)
map_convert(wrapper, nodes, items, done) ==
    IF Len(items) = 0 THEN [nodes |-> nodes, result |-> Ok(done)]
    ELSE map_convert_next(wrapper, items, done,
                          IF wrapper = "_unicodify_files"
                          THEN convert_file(nodes, Head(items))
                          ELSE convert_change(nodes, Head(items)))

map_convert_next(wrapper, items, done, item) ==
    IF item.result.status # "ok" THEN item
    ELSE map_convert(wrapper, item.nodes, Tail(items), Append(done, item.result.value))

\* bblfsh.aliases.ParseResponse(uast=..., errors=response.errors) of lines
\* 112-116, converted being the outcome of convert_uast.
ParseResponse(response, converted) ==
    [nodes |-> converted.nodes,
     result |-> IF converted.result.status # "ok" THEN converted.result
                ELSE Ok([uast |-> converted.result.value, errors |-> response.errors])]

\* One wrapper of _unicodify_changes, _unicodify_files or _unicodify_uast
\* around a method that gave result for request.
unicodify(wrapper, nodes, request, result) ==
    IF result.status # "ok" THEN [nodes |-> nodes, result |-> result]
    ELSE IF wrapper = "_unicodify_uast"
    THEN ParseResponse(result.value,
                       convert_uast(BytesToUnicodeConverter(encode(request.content.value)),
                                    nodes, result.value.uast))
    ELSE map_convert(wrapper, nodes, result.value, <<>>)

\* A call of a stub method: the server's response through the wrappers of
\* the method, innermost first.
RECURSIVE call_method(_, _, _, _)
RECURSIVE call_outer(_, _, _)
call_method(wrappers, nodes, request, result) ==
    IF Len(wrappers) = 0 THEN [nodes |-> nodes, result |-> result]
    ELSE call_outer(Tail(wrappers), request, unicodify(Head(wrappers), nodes, request, result))

call_outer(wrappers, request, inner) ==
    call_method(wrappers, inner.nodes, request, inner.result)

\* unicode_data_service.get_data(), first statement (super().get_data())
UnicodeGetData ==
    \E t \in Threads :
        get_stub(t, "UnicodeDataService.get_data", "data_stub", TRUE, UnicodeMaxCalls)

\* unicode_data_service.get_bblfsh(), first statement (super().get_bblfsh())
UnicodeGetBblfsh ==
    \E t \in Threads :
        get_stub(t, "UnicodeDataService.get_bblfsh", "bblfsh_stub", TRUE, UnicodeMaxCalls)

\* UnicodeDataService.get_data, lines 126-128, and get_bblfsh, lines
\* 135-136: the methods of the stub are replaced by wrapped ones and the
\* stub is returned.
Wrap ==
    \E t \in Threads :
        /\ threads[t].pc = "wrap"
        /\ grpc' = IF threads[t].attr = "data_stub"
                   THEN [grpc EXCEPT
                           !.stubs[threads[t].stub].GetChanges = Append(@, "_unicodify_changes"),
                           !.stubs[threads[t].stub].GetFiles = Append(@, "_unicodify_files")]
                   ELSE [grpc EXCEPT
                           !.stubs[threads[t].stub].Parse = Append(@, "_unicodify_uast")]
        /\ Return(t, Ok(threads[t].stub))
        /\ UNCHANGED <<service, calls, heap>>
        /\ ServiceFrame

\* The files the server sends: a content and a one-node UAST over it.
ServerFiles(n) ==
    UNION {{[file |-> File(bytes(content), 1), nodes |-> nodes] : nodes \in Uasts(content, 1)} :
             content \in Contents(n)}

\* The end of a stub call: the heap and the outcome out are those the
\* wrappers left.
StubReturn(t, method, stub, request, response, out) ==
    /\ heap' = out.nodes
    /\ ret' = [op |-> method, thread |-> t, stub |-> stub, request |-> request,
               response |-> response, result |-> out.result]

\* A stub call by a thread that is in no service call, on the stub
\* get_data or get_bblfsh returned to it.
StubCall(t, attr, method, request, response, nodes) ==
    /\ threads[t].pc = "idle"
    /\ service._data_request_local[t][attr] # None
    /\ StubReturn(t, method, service._data_request_local[t][attr], request, response,
                  call_method(grpc.stubs[service._data_request_local[t][attr]][method],
                              nodes, request, Ok(response)))
    /\ UNCHANGED <<service, grpc, threads, calls>>
    /\ ServiceFrame

\* list(stub.GetFiles(request))
GetFiles ==
    \E t \in Threads, sent \in ServerFiles(ServiceMaxChunks) :
        StubCall(t, "data_stub", "GetFiles", <<>>, <<sent.file>>, sent.nodes)

\* The changes the server sends: a file that was added (no base: an empty
\* File) or deleted (no head).
ServerChanges(n) ==
    LET none == [file |-> File(bytes(<<>>), 1), nodes |-> <<Node(Position(0, 0, 0), Position(0, 0, 0), <<>>)>>]
    IN {[base |-> none, head |-> sent] : sent \in ServerFiles(n)}
           \cup {[base |-> sent, head |-> none] : sent \in ServerFiles(n)}

\* list(stub.GetChanges(request))
GetChanges ==
    \E t \in Threads, sent \in ServerChanges(ChangeMaxChunks) :
        StubCall(t, "data_stub", "GetChanges", <<>>,
                 <<[base |-> sent.base.file, head |-> [sent.head.file EXCEPT !.uast = 2]]>>,
                 sent.base.nodes \o sent.head.nodes)

\* stub.Parse(request): the server parses the UTF-8 bytes of the content.
Parse ==
    \E t \in Threads, content \in Contents(ServiceMaxChunks) :
        \E nodes \in Uasts(encode(decode(content)), 1) :
            StubCall(t, "bblfsh_stub", "Parse",
                     [filename |-> "f.py", content |-> str(decode(content)), language |-> None],
                     [uast |-> 1, errors |-> <<>>], nodes)

InitUnicodeDataService == ServiceConstructed(UnicodeMaxThreads)

NextUnicodeDataService ==
    \/ UnicodeGetData
    \/ UnicodeGetBblfsh
    \/ GetChannel
    \/ CreateChannel
    \/ AppendChannel
    \/ MakeStub
    \/ Wrap
    \/ GetFiles
    \/ GetChanges
    \/ Parse

\* One UnicodeDataService, the stubs it returns and the calls made on them.
SpecUnicodeDataService == InitUnicodeDataService /\ [][NextUnicodeDataService]_vars

\* ------------------------------------------------------ reference notions

Docs == raw_data._document_collection

\* The summed length of the first n documents.
RECURSIVE SumLen(_, _)
SumLen(docs, n) == IF n = 0 THEN 0 ELSE SumLen(docs, n - 1) + Len(docs[n])

\* The span of document i in global offsets and the length of the batch.
Span(i) == <<SumLen(Docs, i - 1), SumLen(Docs, i)>>

Total == SumLen(Docs, Len(Docs))

\* The documents concatenated, and its bytes at global offsets start..stop-1.
RECURSIVE Concat(_, _)
Concat(docs, n) == IF n = 0 THEN <<>> ELSE Concat(docs, n - 1) \o docs[n]

GlobalSlice(start, stop) == SubSeq(Concat(Docs, Len(Docs)), start + 1, stop)

\* The document that holds global offset k, for 0 <= k < Total.
Owner(k) == CHOOSE i \in 1..Len(Docs) : Span(i)[1] <= k /\ k < Span(i)[2]

\* The range lies within the span of one document.
InOneDocument(range) ==
    /\ range[1] <= range[2]
    /\ \E i \in 1..Len(Docs) : Span(i)[1] <= range[1] /\ range[2] <= Span(i)[2]

\* Every annotated range of the store lies within the span of one document.
StoreInDocuments == \A r \in DOMAIN range_to_annotations : InOneDocument(r)

\* The ranges whose annotations carry every listed type.
CoLocated(names) ==
    {r \in DOMAIN range_to_annotations :
        {names[i] : i \in 1..Len(names)} \subseteq DOMAIN range_to_annotations[r]}

\* The store that add, called on each annotation in order, produces.
RECURSIVE AddEach(_, _)
AddEach(self, annotations) ==
    IF Len(annotations) = 0 THEN self
    ELSE AddEach(add(self, Head(annotations)), Tail(annotations))

\* ------------------------------------------------------------------- claims

\* C1: get_docs_range returns one (doc_start, doc_end) pair per document, in
\* batch order, doc_start the summed length of the documents before it and
\* doc_end = doc_start + the document's length.
C1_OneSpanPerDocument ==
    ret.op = "get_docs_range" =>
        ret.result.value = [i \in 1..Len(Docs) |-> Span(i)]

\* C2: from_files on a non-empty batch of n records returns a store with
\* exactly n path, n uast_node and n language annotations, one of each at
\* the span of every document and carrying that record's value.
C2_FromFilesAnnotatesEveryDocument ==
    ret.op = "from_files" =>
        /\ ret.result.status = "ok"
        /\ DOMAIN ret.result.value._type_to_annotations = {"path", "uast_node", "language"}
        /\ \A name \in {"path", "uast_node", "language"} :
              /\ Cardinality(DOMAIN ret.result.value._type_to_annotations[name]) = Len(Docs)
              /\ \A i \in 1..Len(Docs) :
                    /\ Span(i) \in DOMAIN ret.result.value._type_to_annotations[name]
                    /\ ret.result.value._type_to_annotations[name][Span(i)]
                         = [name |-> name, range |-> Span(i),
                            value |-> <<(IF name = "uast_node" THEN "uast" ELSE name), i>>]
                    /\ Span(i) \in DOMAIN ret.result.value._range_to_annotations
                    /\ name \in DOMAIN ret.result.value._range_to_annotations[Span(i)]

\* C3: after any sequence of add and extend calls, raising ones included,
\* range_index[r][t] is annotation a if and only if type_index[t][r] is a.
C3_IndicesCoupled ==
    /\ \A r \in DOMAIN range_to_annotations : \A t \in DOMAIN range_to_annotations[r] :
          /\ t \in DOMAIN type_to_annotations
          /\ r \in DOMAIN type_to_annotations[t]
          /\ type_to_annotations[t][r] = range_to_annotations[r][t]
    /\ \A t \in DOMAIN type_to_annotations : \A r \in DOMAIN type_to_annotations[t] :
          /\ r \in DOMAIN range_to_annotations
          /\ t \in DOMAIN range_to_annotations[r]
          /\ range_to_annotations[r][t] = type_to_annotations[t][r]

\* C4: an extend whose annotations all target ranges already in the range
\* index succeeds and leaves both indices as add on each annotation, in the
\* same order, would.
C4_ExtendEqualsAdds ==
    [][(/\ ret'.op = "extend"
        /\ calls' = calls + 1
        /\ \A i \in 1..Len(ret'.annotations) :
              ret'.annotations[i].range \in DOMAIN range_to_annotations)
       => (/\ ret'.result.status = "ok"
           /\ range_to_annotations' = AddEach(Self, ret'.annotations)._range_to_annotations
           /\ type_to_annotations' = AddEach(Self, ret'.annotations)._type_to_annotations)]_vars

\* C5: for every global offset 0 <= k < total length, raw_data[k] is the byte
\* of the owning document, which has the greatest start offset <= k, at
\* local offset k - prefix(document).
C5_GetReturnsOwningByte ==
    (ret.op = "getitem" /\ ret.index.kind = "int" /\ 0 <= ret.index.v /\ ret.index.v < Total) =>
        /\ ret.result.status = "ok"
        /\ \E i \in 1..Len(Docs) :
              /\ Span(i)[1] <= ret.index.v /\ ret.index.v < Span(i)[2]
              /\ \A j \in 1..Len(Docs) : Span(j)[1] <= ret.index.v => Span(j)[1] <= Span(i)[1]
              /\ ret.result.value = Docs[i][ret.index.v - Span(i)[1] + 1]

\* C5 witness: the last byte of a three-document batch whose middle document
\* is empty is read from the last document.
C5_Witness ==
    /\ ret.op = "getitem" /\ ret.index.kind = "int"
    /\ Len(Docs) = 3 /\ Len(Docs[1]) > 0 /\ Len(Docs[2]) = 0 /\ Len(Docs[3]) = 2
    /\ ret.index.v = Total - 1
    /\ ret.result = Ok(Docs[3][2])

\* C6: a range whose first and last byte lie in different documents fails
\* with IndexError and returns no data, and no successful range read holds
\* bytes of two documents.
C6_NoRangeAcrossDocuments ==
    (ret.op = "getitem" /\ ret.index.kind = "tuple") =>
        /\ (/\ 0 <= ret.index.start /\ ret.index.start < Total
            /\ 0 <= ret.index.stop - 1 /\ ret.index.stop - 1 < Total
            /\ Owner(ret.index.start) # Owner(ret.index.stop - 1))
           => ret.result = Raise("IndexError")
        /\ ret.result.status = "ok" =>
              \E i \in 1..Len(Docs) :
                 \A n \in 1..Len(ret.result.value) :
                    \E j \in 1..Len(Docs[i]) : ret.result.value[n] = Docs[i][j]

\* C6 witness: a range from the first document into the second one fails.
C6_Witness ==
    /\ ret.op = "getitem" /\ ret.index.kind = "tuple"
    /\ Len(Docs) >= 2 /\ Len(Docs[1]) = 2
    /\ ret.index.start = 1 /\ ret.index.stop = 3 /\ Total >= 3
    /\ Owner(1) = 1 /\ Owner(2) = 2
    /\ ret.result = Raise("IndexError")

\* C7: every range start <= stop contained in the span of one document,
\* empty ranges and whole documents included, is read successfully as that
\* document's local slice [start - doc_start, stop - doc_start).
C7_RangeInOneDocumentSucceeds ==
    (ret.op = "getitem" /\ ret.index.kind = "tuple" /\ ret.index.start <= ret.index.stop) =>
        \A i \in 1..Len(Docs) :
           (Span(i)[1] <= ret.index.start /\ ret.index.stop <= Span(i)[2]) =>
               ret.result = Ok(SubSeq(Docs[i], ret.index.start - Span(i)[1] + 1,
                                      ret.index.stop - Span(i)[1]))

\* C8: add(a), for a range within one document, immediately followed by
\* iter_annotation(a.name) runs to completion and yields (slice at a.range, a)
\* exactly once, and nothing else when a is the only annotation of its type.
\* Stated for stores all of whose ranges lie within one document.
C8_AddThenIterYieldsIt ==
    [][(/\ ret.op = "add"
        /\ ret'.op = "iter_annotation"
        /\ ret'.name = ret.annotation.name
        /\ StoreInDocuments)
       => (/\ ret'.result.status = "ok"
           /\ Cardinality({n \in 1..Len(ret'.result.value) :
                 ret'.result.value[n]
                    = <<GlobalSlice(ret.annotation.range[1], ret.annotation.range[2]),
                        ret.annotation>>}) = 1
           /\ DOMAIN type_to_annotations[ret.annotation.name] = {ret.annotation.range}
                 => Len(ret'.result.value) = 1)]_vars

\* C9: iter_annotations(names) yields one entry for every range whose
\* annotations carry all the listed types and none for any other range, in
\* ascending range order.  Stated for stores all of whose ranges lie within
\* one document.
C9_CoLocatedExactlyTheMatches ==
    (ret.op = "iter_annotations" /\ StoreInDocuments) =>
        /\ Len(ret.result.value) = Cardinality(CoLocated(ret.names))
        /\ \A n \in 1..Len(ret.result.value) :
              /\ ret.result.value[n][2].range = SortedKeys(CoLocated(ret.names))[n]
              /\ ret.result.value[n][1]
                   = GlobalSlice(ret.result.value[n][2].range[1], ret.result.value[n][2].range[2])
              /\ \A m \in 1..Len(ret.result.value[n][2].items) :
                    ret.result.value[n][2].items[m][2]
                      = range_to_annotations[ret.result.value[n][2].range]
                                            [ret.result.value[n][2].items[m][1]]

\* C10: when no range carries all the listed types, a listed type without
\* any annotation included, iter_annotations yields an empty sequence and
\* does not raise.  Stated for stores all of whose ranges lie within one
\* document.
C10_NoMatchIsEmptyNotError ==
    (ret.op = "iter_annotations" /\ StoreInDocuments /\ CoLocated(ret.names) = {}) =>
        ret.result = Ok(<<>>)

\* The (type, range) entries of the two indices.
InRangeIndex(index, name, range) ==
    range \in DOMAIN index /\ name \in DOMAIN index[range]

InTypeIndex(index, name, range) ==
    name \in DOMAIN index /\ range \in DOMAIN index[name]

\* C11: an add call leaves its annotation as the one entry of its (type,
\* range) in both indices, replacing an earlier one, and every other (type,
\* range) entry of both indices is present afterwards exactly if it was
\* present before, with the same annotation.
C11_AddOverwritesOnlyItsEntry ==
    [][history' = Append(history, "add") =>
         LET a == ret'.annotation
         IN /\ InRangeIndex(range_to_annotations', a.name, a.range)
            /\ range_to_annotations'[a.range][a.name] = a
            /\ InTypeIndex(type_to_annotations', a.name, a.range)
            /\ type_to_annotations'[a.name][a.range] = a
            /\ \A name \in Names, range \in Ranges(raw_data) :
                  <<name, range>> # <<a.name, a.range>> =>
                    /\ InRangeIndex(range_to_annotations', name, range)
                          <=> InRangeIndex(range_to_annotations, name, range)
                    /\ InRangeIndex(range_to_annotations, name, range) =>
                          range_to_annotations'[range][name] = range_to_annotations[range][name]
                    /\ InTypeIndex(type_to_annotations', name, range)
                          <=> InTypeIndex(type_to_annotations, name, range)
                    /\ InTypeIndex(type_to_annotations, name, range) =>
                          type_to_annotations'[name][range] = type_to_annotations[name][range]
            /\ DOMAIN range_to_annotations' = DOMAIN range_to_annotations \cup {a.range}
            /\ DOMAIN type_to_annotations' = DOMAIN type_to_annotations \cup {a.name}]_vars

\* Two add calls of the same type and range: the store holds the second
\* annotation and nothing else.
C11_Witness ==
    /\ history = <<"add", "add">>
    /\ ret.op = "add"
    /\ ret.annotation.value = <<2, 1>>
    /\ DOMAIN range_to_annotations = {ret.annotation.range}
    /\ range_to_annotations[ret.annotation.range] =
          [n \in {ret.annotation.name} |-> ret.annotation]
    /\ DOMAIN type_to_annotations = {ret.annotation.name}
    /\ type_to_annotations[ret.annotation.name] =
          [r \in {ret.annotation.range} |-> ret.annotation]

\* C12: iter_annotation(name) over a store whose ranges each lie in one
\* document runs to its end and yields one pair per annotation of the type,
\* in strictly ascending (start, stop) order, each pair holding the bytes of
\* the range and the annotation of the type index.
C12_IterByTypeCompleteAscending ==
    (/\ ret.op = "iter_annotation"
     /\ ret.name \in DOMAIN type_to_annotations
     /\ StoreInDocuments) =>
        LET typed == type_to_annotations[ret.name]
            yielded == ret.result.value
        IN /\ ret.result.status = "ok"
           /\ Len(yielded) = Cardinality(DOMAIN typed)
           /\ {yielded[i][2].range : i \in 1..Len(yielded)} = DOMAIN typed
           /\ \A i \in 1..Len(yielded) :
                 /\ yielded[i][2] = typed[yielded[i][2].range]
                 /\ yielded[i][1] = GlobalSlice(yielded[i][2].range[1], yielded[i][2].range[2])
           /\ \A i \in 1..(Len(yielded) - 1) :
                 RangeLess(yielded[i][2].range, yielded[i + 1][2].range)

\* C13: iter_annotation(name) for a type that has no entry in the type index
\* (no add call has named it) ends with KeyError before yielding a pair, and
\* the call leaves both indices as they were: no entry is created for name.
C13_UnknownTypeKeyError ==
    [][(ret'.op = "iter_annotation" /\ ret'.name \notin DOMAIN type_to_annotations) =>
         /\ ret'.result = Raise("KeyError")
         /\ ret'.result.value = <<>>
         /\ range_to_annotations' = range_to_annotations
         /\ type_to_annotations' = type_to_annotations
         /\ ret'.name \notin DOMAIN type_to_annotations']_vars

\* A store that holds an annotation of one type is asked for the other.
C13_Witness ==
    /\ ret.op = "iter_annotation"
    /\ ret.result.status = "KeyError"
    /\ history = <<"add">>
    /\ DOMAIN type_to_annotations = Names \ {ret.name}

\* The (type, range) keys of the range index and of the type index.
RangeIndexKeys(index) ==
    UNION {{<<name, range>> : name \in DOMAIN index[range]} : range \in DOMAIN index}

TypeIndexKeys(index) ==
    UNION {{<<name, range>> : range \in DOMAIN index[name]} : name \in DOMAIN index}

\* C14: the store starts from two empty indices, and no call on it (add,
\* extend, iter_annotation, iter_annotations, whether it returns or raises)
\* removes a (type, range) key, a range or a type from either index.
C14_KeysOnlyGrow ==
    /\ (range_to_annotations = EmptyDict /\ type_to_annotations = EmptyDict)
    /\ [][/\ RangeIndexKeys(range_to_annotations) \subseteq RangeIndexKeys(range_to_annotations')
          /\ TypeIndexKeys(type_to_annotations) \subseteq TypeIndexKeys(type_to_annotations')
          /\ DOMAIN range_to_annotations \subseteq DOMAIN range_to_annotations'
          /\ DOMAIN type_to_annotations \subseteq DOMAIN type_to_annotations']_vars

\* An extend call that raised after a successful add: the key of the add and
\* the key the failed call wrote to the range index are both there.
C14_Witness ==
    /\ history = <<"add", "extend">>
    /\ ret.op = "extend"
    /\ ret.result.status = "KeyError"
    /\ Cardinality(RangeIndexKeys(range_to_annotations)) = 2
    /\ Cardinality(TypeIndexKeys(type_to_annotations)) = 1

\* C15: an int key inside the buffer returns its byte; a slice without a
\* step returns what the (start, stop) pair of the same bounds returned on
\* the call before (the same bytes or the same error), and the bytes of a
\* non-empty range inside one document; a slice with a step and a key of any
\* other type raise IndexError and return nothing.
C15_IndexKinds ==
    [][ret'.op = "getitem" =>
         LET index == ret'.index
             result == ret'.result
         IN /\ (index.kind = "int" /\ 0 <= index.v /\ index.v < Total) =>
                  result.status = "ok"
            /\ (/\ index.kind = "slice" /\ index.step = <<>>
                /\ ret.op = "getitem" /\ ret.index.kind = "tuple"
                /\ ret.index.start = index.start /\ ret.index.stop = index.stop) =>
                  result = ret.result
            /\ (/\ index.kind \in {"slice", "tuple"}
                /\ index.kind = "slice" => index.step = <<>>
                /\ index.start < index.stop
                /\ InOneDocument(<<index.start, index.stop>>)) =>
                  result = Ok(GlobalSlice(index.start, index.stop))
            /\ (index.kind = "slice" /\ index.step # <<>>) => result = Raise("IndexError")
            /\ index.kind \notin {"int", "slice", "tuple"} => result = Raise("IndexError")]_vars

\* A slice without a step has returned two bytes of the second document.
C15_Witness ==
    /\ Len(Docs) = 2
    /\ Len(Docs[2]) = 2
    /\ ret.op = "getitem"
    /\ ret.index.kind = "slice"
    /\ ret.index.step = <<>>
    /\ ret.index.start = Span(2)[1]
    /\ ret.result = Ok(Docs[2])

\* ------------------------------------------- converter reference notions

Content == converter._content

Text == converter._content_str

\* The content is valid UTF-8: decoding it meets no error.
ValidUtf8 ==
    \A i \in 1..Len(utf8_decode_steps(Content, 1)) : ~utf8_decode_steps(Content, 1)[i].error

IsAscii == \A i \in 1..Len(Content) : Content[i] < 128

\* The length of the encoding of text[:i].
RECURSIVE EncodedLength(_, _)
EncodedLength(text, i) ==
    IF i = 0 THEN 0 ELSE EncodedLength(text, i - 1) + encoded_len(text[i])

\* The byte offsets of the character boundaries of a valid content, and the
\* number of codepoints before one of them.
CharBoundaries == {EncodedLength(Text, i) : i \in 0..Len(Text)}

CodepointsBefore(offset) == CHOOSE i \in 0..Len(Text) : EncodedLength(Text, i) = offset

\* The length of the text in bytes when a placeholder counts as one byte.
RECURSIVE CountedLength(_, _)
CountedLength(text, i) ==
    IF i = 0 THEN 0
    ELSE CountedLength(text, i - 1)
           + (IF text[i] = REPLACEMENT THEN 1 ELSE encoded_len(text[i]))

IsSet(position) == ~(position.offset = 0 /\ position.line = 0 /\ position.col = 0)

\* The start and end positions of the tree under uast, node by node.
PositionsOf(uast) ==
    LET order == _traverse_uast(heap, uast)
    IN [k \in 1..(2 * Len(order)) |->
          IF k % 2 = 1 THEN heap[order[(k + 1) \div 2]].start_position
          ELSE heap[order[k \div 2]].end_position]

\* The tree under uast as a value: positions and children, no identities.
RECURSIVE TreeValue(_, _)
TreeValue(nodes, uast) ==
    [start_position |-> nodes[uast].start_position,
     end_position |-> nodes[uast].end_position,
     children |-> [k \in 1..Len(nodes[uast].children) |->
                      TreeValue(nodes, nodes[uast].children[k])]]

\* Every position that is set in the tree lies on a character boundary.
OnBoundaries(uast) ==
    \A k \in 1..Len(PositionsOf(uast)) :
        IsSet(PositionsOf(uast)[k]) => PositionsOf(uast)[k].offset \in CharBoundaries

\* C16: for valid UTF-8 content the table maps the byte offset of the
\* boundary before codepoint i, the encoded length of text[:i], to i for
\* every i in 0..len(text), and convert_uast of a tree whose positions lie
\* on character boundaries returns a tree in which the offset of every set
\* position is the number of codepoints before it.
C16_TableMapsBoundaries ==
    ValidUtf8 =>
        /\ \A i \in 0..Len(Text) :
              /\ EncodedLength(Text, i) \in DOMAIN converter._byte_to_str_offset
              /\ converter._byte_to_str_offset[EncodedLength(Text, i)] = i
        /\ (ret.op = "convert_uast" /\ OnBoundaries(ret.uast)) =>
              /\ ret.result.status = "ok"
              /\ \A k \in 1..Len(PositionsOf(ret.uast)) :
                    IsSet(PositionsOf(ret.uast)[k]) =>
                       PositionsOf(ret.result.value)[k].offset
                          = CodepointsBefore(PositionsOf(ret.uast)[k].offset)

\* C17: every error of the decoder is one byte long, so that a run of K
\* undecodable bytes gives K placeholders, and the length of the text counted
\* with one byte per placeholder is the length of the content.
C17_OnePlaceholderPerInvalidByte ==
    /\ \A i \in 1..Len(utf8_decode_steps(Content, 1)) :
          utf8_decode_steps(Content, 1)[i].error => utf8_decode_steps(Content, 1)[i].n = 1
    /\ CountedLength(Text, Len(Text)) = Len(Content)

\* C18: a convert_uast call, whether it returns or raises, leaves every node
\* that existed before it as it was, and the tree it returns is made of new
\* nodes only and has the shape of the tree passed in.
C18_CallerTreeNotMutated ==
    [][calls' = calls + 1 =>
         /\ \A id \in DOMAIN heap : id \in DOMAIN heap' /\ heap'[id] = heap[id]
         /\ TreeValue(heap', ret'.uast) = TreeValue(heap, ret'.uast)
         /\ ret'.result.status = "ok" =>
               LET old == _traverse_uast(heap', ret'.uast)
                   new == _traverse_uast(heap', ret'.result.value)
               IN /\ \A k \in 1..Len(new) : new[k] \notin DOMAIN heap
                  /\ Len(new) = Len(old)
                  /\ \A k \in 1..Len(new) :
                        Len(heap'[new[k]].children) = Len(heap'[old[k]].children)]_vars

\* A call on a two-node tree raised at the child after it had rewritten the
\* end position of the root of its copy.
C18_Witness ==
    /\ ret.op = "convert_uast"
    /\ ret.uast = 1
    /\ ret.result.status = "KeyError"
    /\ Len(heap) = 4
    /\ heap[1].children = <<2>>
    /\ heap[3].children = <<4>>
    /\ heap[3].end_position # heap[1].end_position
    /\ heap[4] = heap[2]

\* C19: for non-empty valid content and a tree whose positions lie on
\* character boundaries convert_uast returns, and in the returned tree every
\* position that was all zero is unchanged and every other position is the
\* (offset, line, col) of the number of codepoints before its byte offset.
C19_EveryPositionConverted ==
    (/\ ret.op = "convert_uast"
     /\ Len(Content) > 0
     /\ ValidUtf8
     /\ OnBoundaries(ret.uast)) =>
        /\ ret.result.status = "ok"
        /\ Len(PositionsOf(ret.result.value)) = Len(PositionsOf(ret.uast))
        /\ \A k \in 1..Len(PositionsOf(ret.uast)) :
              LET before == PositionsOf(ret.uast)[k]
                  after == PositionsOf(ret.result.value)[k]
              IN IF IsSet(before)
                 THEN after = _get_position(converter, CodepointsBefore(before.offset))
                 ELSE after = before

\* C20: for pure-ASCII content the table is the identity on 0..len(content),
\* convert_uast returns a tree whose positions have the offsets of the tree
\* passed in, and the conversion of a tree that a conversion returned gives
\* an equal tree.
C20_AsciiFixedPoint ==
    IsAscii =>
        /\ converter._byte_to_str_offset = [k \in 0..Len(Content) |-> k]
        /\ ret.op = "convert_uast" =>
              /\ ret.result.status = "ok"
              /\ \A k \in 1..Len(PositionsOf(ret.uast)) :
                    PositionsOf(ret.result.value)[k].offset = PositionsOf(ret.uast)[k].offset
              /\ ret.uast # 1 =>
                    TreeValue(heap, ret.result.value) = TreeValue(heap, ret.uast)

\* The tree returned for "a\n" and an end position at offset 2 (line 2, col
\* 1) has been converted again.
C20_Witness ==
    /\ Content = <<97, 10>>
    /\ ret.op = "convert_uast"
    /\ ret.uast # 1
    /\ ret.result.status = "ok"
    /\ heap[1].end_position = Position(2, 1, 3)
    /\ heap[ret.uast].end_position = Position(2, 2, 1)
    /\ heap[ret.result.value].end_position = Position(2, 2, 1)

\* C21: a converter over an empty content is constructed (empty text, no
\* lines, the table {0: 0}), and convert_uast returns a new tree equal to
\* the tree passed in, whatever positions its nodes carry.
C21_EmptyContentCopies ==
    Len(Content) = 0 =>
        /\ converter = [_content |-> <<>>, _content_str |-> <<>>, _lines |-> <<>>,
                        _byte_to_str_offset |-> DictSet(EmptyDict, 0, 0),
                        _lines_offset |-> <<>>]
        /\ ret.op = "convert_uast" =>
              /\ ret.result.status = "ok"
              /\ ret.result.value # ret.uast
              /\ TreeValue(heap, ret.result.value) = TreeValue(heap, ret.uast)

\* A two-node tree with a set offset and a half-set position at offset 0
\* has been converted over an empty content.
C21_Witness ==
    /\ Len(Content) = 0
    /\ ret.op = "convert_uast"
    /\ ret.uast = 1
    /\ ret.result.status = "ok"
    /\ heap[1].children = <<2>>
    /\ heap[1].end_position = Position(1, 1, 2)
    /\ heap[2].end_position = Position(0, 0, 1)
    /\ heap[ret.result.value].end_position = Position(1, 1, 2)

\* ---------------------------------------- position lookup reference notions

\* The start offsets of the lines of the text: what precedes each line.
LineStart(i) ==
    LET RECURSIVE before(_)
        before(k) == IF k = 0 THEN 0 ELSE before(k - 1) + Len(converter._lines[k])
    IN before(i - 1)

\* The 1-based number of the line with the greatest line start <= offset.
LineOf(offset) ==
    CHOOSE i \in 1..Len(converter._lines) :
        /\ LineStart(i) <= offset
        /\ \A j \in 1..Len(converter._lines) : LineStart(j) <= offset => j <= i

\* The line ends with a line boundary.
HasTerminator(line) == Len(line) > 0 /\ line[Len(line)] \in LineBoundaries

\* The offset is the end of its line and the line carries a terminator.
Normalized(offset) ==
    /\ offset - LineStart(LineOf(offset)) = Len(converter._lines[LineOf(offset)])
    /\ HasTerminator(converter._lines[LineOf(offset)])

\* C22: the line-start table of a non-empty text is the line starts followed
\* by len(text) + 1, and for an offset in 0..len(text) the lookup returns the
\* offset with line >= 1 and col >= 1; unless the end-of-line normalization
\* applies, line is the number of the line with the greatest line start <=
\* offset and col - 1 the distance from that line start.
C22_PositionLookup ==
    Len(Text) > 0 =>
        /\ converter._lines_offset =
              [i \in 1..(Len(converter._lines) + 1) |->
                  IF i <= Len(converter._lines) THEN LineStart(i) ELSE Len(Text) + 1]
        /\ (ret.op = "_get_position" /\ ret.offset <= Len(Text)) =>
              /\ ret.result.status = "ok"
              /\ ret.result.value.offset = ret.offset
              /\ ret.result.value.line >= 1
              /\ ret.result.value.col >= 1
              /\ ~Normalized(ret.offset) =>
                    /\ ret.result.value.line = LineOf(ret.offset)
                    /\ ret.result.value.col - 1 = ret.offset - LineStart(LineOf(ret.offset))

\* The lookup of the end of a text of two lines whose last line has no
\* terminator.
C22_Witness ==
    /\ ret.op = "_get_position"
    /\ Len(converter._lines) = 2
    /\ ~HasTerminator(converter._lines[2])
    /\ ret.offset = Len(Text)
    /\ ret.result = Ok(Position(Len(Text), 2, Len(converter._lines[2]) + 1))

\* C23: a lookup at the end of a line that carries a terminator returns
\* column 1 of the following line; a lookup at the end of a final line
\* without terminator returns that line and column len(line) + 1; any other
\* lookup returns the line with the greatest line start <= offset.
C23_EndOfLineNormalization ==
    (ret.op = "_get_position" /\ Len(Text) > 0 /\ ret.offset <= Len(Text)) =>
        LET i == LineOf(ret.offset)
            line == converter._lines[i]
            at_end == ret.offset - LineStart(i) = Len(line)
            position == ret.result.value
        IN /\ ret.result.status = "ok"
           /\ (at_end /\ HasTerminator(line)) =>
                 (position.line = i + 1 /\ position.col = 1)
           /\ (at_end /\ ~HasTerminator(line)) =>
                 (i = Len(converter._lines) /\ position.line = i /\ position.col = Len(line) + 1)
           /\ ~(at_end /\ HasTerminator(line)) => position.line = i
           /\ \A j \in 1..Len(converter._lines) :
                 (ret.offset = LineStart(j) + Len(converter._lines[j])
                     /\ HasTerminator(converter._lines[j])) =>
                    (position.line = j + 1 /\ position.col = 1)

\* The lookup of the end of a text whose last line ends with "\r\n".
C23_Witness ==
    /\ ret.op = "_get_position"
    /\ Len(Text) >= 3
    /\ ret.offset = Len(Text)
    /\ Text[Len(Text) - 1] = 13
    /\ Text[Len(Text)] = 10
    /\ ret.result = Ok(Position(Len(Text), Len(converter._lines) + 1, 1))

\* C24: an extend call that raises leaves both indices as they were before
\* the call.
C24_FailedExtendChangesNothing ==
    [][(history' = Append(history, "extend") /\ ret'.result.status # "ok") =>
         /\ range_to_annotations' = range_to_annotations
         /\ type_to_annotations' = type_to_annotations]_vars

\* C25: a (start, stop) lookup that returns has 0 <= start <= stop <= total
\* length and returns the stop - start bytes of the concatenated documents
\* at the global offsets start..stop-1.
C25_ReturnedRangeIsExact ==
    (ret.op = "getitem" /\ ret.index.kind = "tuple" /\ ret.result.status = "ok") =>
        /\ 0 <= ret.index.start
        /\ ret.index.start <= ret.index.stop
        /\ ret.index.stop <= Total
        /\ Len(ret.result.value) = ret.index.stop - ret.index.start
        /\ ret.result.value = GlobalSlice(ret.index.start, ret.index.stop)

\* The ranges a call of iter_annotations yielded, in order.
YieldedRanges(result) == [i \in 1..Len(result.value) |-> result.value[i][2].range]

\* C26: over a store whose ranges each lie in one document and in which
\* both types have been added, iter_annotations yields for two names the
\* sequence of ranges it yields for the two names in the other order.
C26_NameOrderIrrelevant ==
    (/\ ret.op = "iter_annotations"
     /\ Len(ret.names) = 2
     /\ \A i \in 1..2 : ret.names[i] \in DOMAIN type_to_annotations
     /\ StoreInDocuments) =>
        LET swapped == iter_annotations(Self, <<ret.names[2], ret.names[1]>>)
        IN YieldedRanges(swapped) = YieldedRanges(ret.result)

\* The channels that were opened and are not closed.
OpenChannels == {c \in 1..Len(grpc.channels) : grpc.channels[c] = "open"}

\* No call on the service is in progress.
Quiescent == \A t \in Threads : threads[t].pc = "idle"

\* C28: whatever the interleaving of the get_data, get_bblfsh, close_channel
\* and shutdown calls of the threads, no call ends with an exception, and
\* when no call is in progress every channel that is open is in the
\* channel list of the service.
C28_InterleavingSafe ==
    /\ ret.op # "init" => ret.result.status = "ok"
    /\ Quiescent => \A c \in OpenChannels : InList(service._data_request_channels, c)
\* A file and a change as values: the UAST as a tree, not an identity.
FileValue(nodes, file) == [file EXCEPT !.uast = TreeValue(nodes, @)]

\* The outcome of a stub call as a value.
ResultValue(method, nodes, result) ==
    IF result.status # "ok" THEN result
    ELSE IF method = "Parse" THEN Ok(FileValue(nodes, result.value))
    ELSE IF method = "GetFiles"
    THEN Ok([k \in 1..Len(result.value) |-> FileValue(nodes, result.value[k])])
    ELSE Ok([k \in 1..Len(result.value) |->
                [base |-> FileValue(nodes, result.value[k].base),
                 head |-> FileValue(nodes, result.value[k].head)]])

\* The wrapper get_data and get_bblfsh put around a method.
WrapperOf(method) ==
    CASE method = "GetFiles" -> "_unicodify_files"
      [] method = "GetChanges" -> "_unicodify_changes"
      [] method = "Parse" -> "_unicodify_uast"

\* The server's response converted once.
ConvertedOnce ==
    LET once == unicodify(WrapperOf(ret.op), heap, ret.request, Ok(ret.response))
    IN ResultValue(ret.op, once.nodes, once.result)

\* C27: a call of GetFiles, GetChanges or Parse on a stub that get_data or
\* get_bblfsh of a UnicodeDataService returned gives the server's response
\* converted once, however many times the stub was asked for.
C27_ConversionAppliedOnce ==
    ret.op \in {"GetFiles", "GetChanges", "Parse"} =>
        ResultValue(ret.op, heap, ret.result) = ConvertedOnce
====
